---- MODULE Spec2Model ----
(***************************************************************************)
(* Crawl engine of scraper.py: URL canonicalization (normalize_url), link  *)
(* extraction (extract_internal_links), the per-page scrape result         *)
(* (scrape_page) and the breadth-first frontier loop (crawl).              *)
(*                                                                         *)
(* Text is modelled as a sequence of tokens.  A token is one of the URL    *)
(* delimiter characters ":", "/", "?", "#" or an atom: a run of characters *)
(* that contains no delimiter ("https", "ex.com", "docs").  All atoms used *)
(* are lower-case, start with a letter and consist of URL scheme           *)
(* characters; the atoms of a path prefix ("docs") are not a proper prefix *)
(* of any other atom, so prefix tests on token sequences agree with        *)
(* str.startswith on the strings they stand for.                           *)
(***************************************************************************)
EXTENDS Integers, Sequences, FiniteSets, TLC

VARIABLES
    start_url,    \* crawl(start_url, ...)
    max_pages,    \* crawl(..., max_pages, ...)
    max_depth,    \* crawl(..., max_depth, ...): <<>> is None, <<d>> is the int d
    path_prefix,  \* crawl(..., path_prefix, ...): <<>> is None or ""
    web,          \* what the site serves per fetched URL (the input link graph)
    visited,      \* crawl: visited
    to_visit,     \* crawl: to_visit, sequence of <<url, depth, referer>>
    pages,        \* crawl: pages
    all_links,    \* crawl: all_links
    status,       \* "running" inside the while loop, "returned" after return
    dequeued,     \* history: the entries popped from to_visit, in order
    fetched,      \* history: the arguments of every scrape_page call, in order
    nu_in,        \* normalize_url: the argument
    nu_alt,       \* normalize_url: a second argument, a variant of nu_in
    nu_out,       \* normalize_url: results, <<>> before the call
    nu_twice,     \* normalize_url applied to its own result, <<>> before
    run_mode,     \* main: "combined", "separate" (args.crawl) or "single"
    expand_tabs,  \* main: args.expand_tabs
    force_browser, \* main: args.force_browser
    pc,           \* main and its callees: the statement about to run
    ctx,          \* scrape_page: the branch that called fetch_with_browser
    exc,          \* the exception being raised, "none" when there is none
    exit_code,    \* the status of sys.exit, -1 while no exit was asked for
    http_calls,   \* fetch_with_httpx calls of the current scrape_page call
    render_calls, \* fetch_with_browser calls of the current scrape_page call
    render_kinds, \* the expand_tabs arguments of these fetch_with_browser calls
    http_result,  \* what fetch_with_httpx did in the current scrape_page call
    html_from,    \* which fetch delivered the html that scrape_page parses
    sp_success,   \* the success flag of the last scrape_page call, "none" before
    playwright,   \* _playwright is not None
    browser,      \* _browser is not None
    launches,     \* how often chromium.launch returned a browser
    open_pages,   \* browser pages that are open
    pages_opened, \* how often new_page returned a page
    pages_n,      \* crawl, as main sees it: len(pages)
    scrapes,      \* crawl, as main sees it: scrape_page calls so far
    page_failures, \* crawl, as main sees it: scrapes that stored no page
    interrupted,  \* a KeyboardInterrupt was delivered
    write_failed, \* writing the output raised
    js_html,      \* is_js_rendered: the document, <<>> when none is examined
    js_out,       \* is_js_rendered: the result, <<>> before the call
    js_soups,     \* the BeautifulSoup objects made from js_html, in the order
                  \* of their making; [1] is the soup scrape_page goes on with
    js_arg,       \* which of js_soups was passed to is_js_rendered, 0 before
    el_anchors,   \* extract_internal_links: the anchors of the document
    el_base,      \* extract_internal_links: base_url
    el_prefix,    \* extract_internal_links: path_prefix
    el_out        \* extract_internal_links: the result, <<>> before the call

runVars == <<run_mode, expand_tabs, force_browser, pc, ctx, exc, exit_code,
             http_calls, render_calls, render_kinds, http_result, html_from,
             sp_success, playwright, browser, launches, open_pages,
             pages_opened, pages_n, scrapes, page_failures, interrupted,
             write_failed>>

jsVars == <<js_html, js_out, js_soups, js_arg>>

linkVars == <<el_anchors, el_base, el_prefix, el_out>>

vars == <<start_url, max_pages, max_depth, path_prefix, web, visited, to_visit,
          pages, all_links, status, dequeued, fetched,
          nu_in, nu_alt, nu_out, nu_twice, runVars, jsVars, linkVars>>

crawlVars == <<start_url, max_pages, max_depth, path_prefix, web, visited,
               to_visit, pages, all_links, status, dequeued, fetched>>

normVars == <<nu_in, nu_alt, nu_out, nu_twice>>

\* main is not running
RunIdle ==
    /\ run_mode = "single"
    /\ expand_tabs = FALSE
    /\ force_browser = FALSE
    /\ pc = "exited"
    /\ ctx = "none"
    /\ exc = "none"
    /\ exit_code = 0
    /\ http_calls = 0
    /\ render_calls = 0
    /\ render_kinds = {}
    /\ http_result = "none"
    /\ html_from = "none"
    /\ sp_success = "none"
    /\ playwright = FALSE
    /\ browser = FALSE
    /\ launches = 0
    /\ open_pages = 0
    /\ pages_opened = 0
    /\ pages_n = 0
    /\ scrapes = 0
    /\ page_failures = 0
    /\ interrupted = FALSE
    /\ write_failed = FALSE

\* no document is examined by is_js_rendered
JsIdle == js_html = <<>> /\ js_out = <<>> /\ js_soups = <<>> /\ js_arg = 0

\* no document is given to extract_internal_links
LinksIdle ==
    /\ el_anchors = <<>>
    /\ el_base = <<>>
    /\ el_prefix = <<>>
    /\ el_out = <<>>

(***************************************************************************)
(* Bounds                                                                  *)
(***************************************************************************)
\* largest page budget tried besides the budget of the cycle scenario
MaxBudget == 3
\* largest depth limit tried
MaxDepthLimit == 2
\* number of tokens after "scheme:" in the arguments of normalize_url
MaxUrlTail == 4

(***************************************************************************)
(* Strings                                                                 *)
(***************************************************************************)
Delims == {":", "/", "?", "#"}

\* index of the first element of s that lies in S, 0 when there is none
\* (str.find, 1-based)
RECURSIVE FindFrom(_, _, _)
FindFrom(s, S, i) ==
    IF i > Len(s) THEN 0
    ELSE IF s[i] \in S THEN i
    ELSE FindFrom(s, S, i + 1)

Find(s, S) == FindFrom(s, S, 1)

\* s[i:] of Python for a 1-based i
Drop(s, n) == SubSeq(s, n + 1, Len(s))

Take(s, n) == SubSeq(s, 1, n)

\* str.startswith
StartsWith(s, p) == Len(p) <= Len(s) /\ Take(s, Len(p)) = p

\* str.rstrip('/')
RECURSIVE RStripSlash(_)
RStripSlash(s) ==
    IF s # <<>> /\ s[Len(s)] = "/" THEN RStripSlash(Take(s, Len(s) - 1))
    ELSE s

(***************************************************************************)
(* urllib.parse.urlparse, the fields the program reads; the steps are      *)
(* those of urlsplit: scheme, netloc, fragment, query, and the rest is     *)
(* the path                                                                *)
(***************************************************************************)
\* the url without "#fragment"
BeforeFragment(s) ==
    LET h == Find(s, {"#"}) IN IF h = 0 THEN s ELSE Take(s, h - 1)

\* url, fragment = url.split('#', 1); url, query = url.split('?', 1)
SplitQuery(scheme, netloc, rest) ==
    LET nofr == BeforeFragment(rest)
        q    == Find(nofr, {"?"})
        h    == Find(rest, {"#"})
    IN  [scheme   |-> scheme,
         netloc   |-> netloc,
         path     |-> IF q = 0 THEN nofr ELSE Take(nofr, q - 1),
         query    |-> IF q = 0 THEN <<>> ELSE Drop(nofr, q),
         fragment |-> IF h = 0 THEN <<>> ELSE Drop(rest, h)]

\* the netloc runs from behind "//" to the first "/", "?" or "#", at d
SplitNetloc(scheme, r, d) ==
    IF Len(r) >= 2 /\ r[1] = "/" /\ r[2] = "/"
    THEN SplitQuery(scheme,
                    IF d = 0 THEN SubSeq(r, 3, Len(r)) ELSE SubSeq(r, 3, d - 1),
                    IF d = 0 THEN <<>> ELSE Drop(r, d - 1))
    ELSE SplitQuery(scheme, <<>>, r)

\* the scheme is the text before the first ":", at i, when it is not empty
\* and holds only scheme characters (every atom does, no delimiter does)
SplitScheme(url, i) ==
    IF i > 1 /\ \A k \in 1..(i - 1) : url[k] \notin Delims
    THEN SplitNetloc(Take(url, i - 1), Drop(url, i),
                     FindFrom(Drop(url, i), {"/", "?", "#"}, 3))
    ELSE SplitNetloc(<<>>, url, FindFrom(url, {"/", "?", "#"}, 3))

urlparse(url) == SplitScheme(url, Find(url, {":"}))

(***************************************************************************)
(* normalize_url                                                           *)
(***************************************************************************)
\* f"{scheme}://{netloc}{path}", then "?query" when there is one
UrlOf(scheme, netloc, path, query) ==
    IF query # <<>>
    THEN scheme \o <<":", "/", "/">> \o netloc \o path \o <<"?">> \o query
    ELSE scheme \o <<":", "/", "/">> \o netloc \o path

\* faulty variant: strips one trailing slash only
Normalized_one_slash(parsed) ==
    UrlOf(parsed.scheme, parsed.netloc,
          IF parsed.path # <<>> /\ parsed.path[Len(parsed.path)] = "/"
          THEN Take(parsed.path, Len(parsed.path) - 1)
          ELSE parsed.path,
          parsed.query)

\* the body of normalize_url after parsed = urlparse(url)
Normalized(parsed) ==
    UrlOf(parsed.scheme, parsed.netloc, RStripSlash(parsed.path), parsed.query)

normalize_url(url) == Normalized(urlparse(url))

(***************************************************************************)
(* The site: what a fetch of a URL delivers                                *)
(***************************************************************************)
Url(host, path) == <<"https", ":", "/", "/", host>> \o path

\* an <a href> of a served document: the href resolved against the page URL
\* (urljoin) and the anchor's inner text
Anchor(href, text) == [href |-> href, text |-> text]

\* hrefs as they stand in the documents
HrefRoot   == Url("ex.com", <<"/">>)
HrefA      == Url("ex.com", <<"/", "a">>)
HrefASlash == Url("ex.com", <<"/", "a", "/">>)
HrefB      == Url("ex.com", <<"/", "b">>)
HrefC      == Url("ex.com", <<"/", "c">>)
HrefD      == Url("ex.com", <<"/", "d">>)
HrefDocs   == Url("ex.com", <<"/", "docs", "/">>)
HrefDocsA  == Url("ex.com", <<"/", "docs", "/", "a">>)
HrefDocsAFrag == Url("ex.com", <<"/", "docs", "/", "a", "#", "top">>)
HrefDocsB  == Url("ex.com", <<"/", "docs", "/", "b">>)
HrefDocsBSlash == Url("ex.com", <<"/", "docs", "/", "b", "/">>)
HrefPdf    == Url("ex.com", <<"/", "docs", "/", "f.pdf">>)
HrefBlogX  == Url("ex.com", <<"/", "blog", "/", "x">>)
HrefOther  == Url("other.com", <<"/", "a">>)
HrefMail   == <<"mailto", ":", "x">>

\* the URLs the crawler requests for them
PageRoot  == Url("ex.com", <<>>)
PageA     == HrefA
PageB     == HrefB
PageC     == HrefC
PageD     == HrefD
PageDocs  == Url("ex.com", <<"/", "docs">>)
PageDocsA == HrefDocsA
PageDocsB == HrefDocsB
PageBlogX == HrefBlogX

\* seed / with /a, /b, /c, each linking back to /
CycleLinks ==
    (PageRoot :> <<Anchor(HrefA, <<"a">>), Anchor(HrefB, <<"b">>),
                   Anchor(HrefC, <<"c">>)>>) @@
    (PageA :> <<Anchor(HrefRoot, <<"home">>)>>) @@
    (PageB :> <<Anchor(HrefRoot, <<"home">>)>>) @@
    (PageC :> <<Anchor(HrefRoot, <<"home">>)>>)

\* a documentation tree with an index page, a blog page beside it, an asset
DocsLinks ==
    (PageDocsA :> <<Anchor(HrefDocs, <<"index">>), Anchor(HrefDocsB, <<"b">>),
                    Anchor(HrefBlogX, <<>>)>>) @@
    (PageDocsB :> <<Anchor(HrefDocs, <<"index">>), Anchor(HrefDocsAFrag, <<"a">>),
                    Anchor(HrefPdf, <<"pdf">>)>>) @@
    (PageDocs  :> <<Anchor(HrefDocsA, <<"a">>), Anchor(HrefDocsBSlash, <<"b">>)>>) @@
    (PageBlogX :> <<Anchor(HrefDocsA, <<"a">>), Anchor(HrefDocsB, <<"b">>)>>)

\* a chain / -> /a -> /b -> /c with a shortcut, duplicates and foreign links
ChainLinks ==
    (PageRoot :> <<Anchor(HrefA, <<"a">>), Anchor(HrefASlash, <<"again">>),
                   Anchor(HrefOther, <<"other">>)>>) @@
    (PageA :> <<Anchor(HrefB, <<"b">>), Anchor(HrefA, <<>>),
                Anchor(HrefMail, <<"mail">>)>>) @@
    (PageB :> <<Anchor(HrefC, <<"c">>), Anchor(HrefRoot, <<"home">>)>>) @@
    (PageC :> <<Anchor(HrefA, <<"a">>)>>)

\* a tree / -> /a, /b in which /d is two links away over /a and three over
\* /b and /c: breadth first and depth first differ
TreeLinks ==
    (PageRoot :> <<Anchor(HrefA, <<"a">>), Anchor(HrefB, <<"b">>)>>) @@
    (PageA :> <<Anchor(HrefD, <<"d">>), Anchor(HrefB, <<"b">>)>>) @@
    (PageB :> <<Anchor(HrefC, <<"c">>), Anchor(HrefRoot, <<"home">>)>>) @@
    (PageC :> <<Anchor(HrefD, <<"d">>)>>) @@
    (PageD :> <<Anchor(HrefA, <<"a">>)>>)

Sites == {[links |-> CycleLinks, start |-> HrefRoot],
          [links |-> TreeLinks,  start |-> HrefRoot],
          [links |-> DocsLinks,  start |-> HrefDocsA],
          [links |-> DocsLinks,  start |-> HrefDocs],
          [links |-> ChainLinks, start |-> HrefRoot]}

\* what extract_text yields for a served document; "FAIL": the fetch raises
Outcomes == {"text", "", " ", "FAIL"}

Served(links, outcome) ==
    [u \in DOMAIN links |->
        [ok      |-> outcome[u] # "FAIL",
         title   |-> "title",
         content |-> IF outcome[u] = "FAIL" THEN "" ELSE outcome[u],
         anchors |-> links[u]]]

\* every page of the cycle scenario serves text
CycleWeb == Served(CycleLinks, [u \in DOMAIN CycleLinks |-> "text"])

\* faulty variant: leaves the content untrimmed
Strip_nothing(content) == content

\* str.strip() of an extracted content
Strip(content) == IF content = " " THEN "" ELSE content

\* atoms that end in one of skip_extensions
SkipAtoms == {"f.pdf"}

(***************************************************************************)
(* extract_internal_links                                                  *)
(***************************************************************************)
\* any(path_lower.endswith(ext) for ext in skip_extensions)
HasSkipExtension(path) == path # <<>> /\ path[Len(path)] \in SkipAtoms

\* faulty variant: leaves the fragment on the URL
CleanUrl_keeps_fragment(parsed) ==
    UrlOf(parsed.scheme, parsed.netloc, parsed.path, parsed.query) \o
    (IF parsed.fragment = <<>> THEN <<>> ELSE <<"#">> \o parsed.fragment)

\* clean_url: f"{scheme}://{netloc}{path}", then "?query" when there is one
CleanUrl(parsed) ==
    UrlOf(parsed.scheme, parsed.netloc, parsed.path, parsed.query)

\* the "continue" tests of the loop body for one anchor
SkipsLink(parsed_url, base_domain, prefix, seen_urls) ==
    \/ parsed_url.scheme \notin {<<"http">>, <<"https">>}
    \/ parsed_url.netloc # base_domain
    \/ prefix # <<>> /\ ~StartsWith(parsed_url.path, prefix)
    \/ HasSkipExtension(parsed_url.path)
    \/ CleanUrl(parsed_url) \in seen_urls

\* a_tag.get_text(strip=True) or parsed_url.path
LinkText(text, parsed_url) == IF text # <<>> THEN text ELSE parsed_url.path

\* the loop over soup.find_all("a", href=True), from anchor i on
RECURSIVE ExtractLinksFrom(_, _, _, _, _, _)
\* the loop body for anchor i, whose resolved href parses as parsed_url
ExtractLink(anchors, i, base_domain, prefix, links, seen_urls, parsed_url, skip) ==
    ExtractLinksFrom(anchors, i + 1, base_domain, prefix,
        IF skip THEN links
        ELSE Append(links, [url  |-> CleanUrl(parsed_url),
                            text |-> LinkText(anchors[i].text, parsed_url)]),
        IF skip THEN seen_urls ELSE seen_urls \cup {CleanUrl(parsed_url)})

ExtractLinksFrom(anchors, i, base_domain, prefix, links, seen_urls) ==
    IF i > Len(anchors) THEN links
    ELSE ExtractLink(anchors, i, base_domain, prefix, links, seen_urls,
                     urlparse(anchors[i].href),
                     SkipsLink(urlparse(anchors[i].href), base_domain, prefix,
                               seen_urls))

\* faulty variant: forgets the path prefix test
extract_internal_links_any_path(anchors, base_url, prefix) ==
    ExtractLinksFrom(anchors, 1, urlparse(base_url).netloc, <<>>, <<>>, {})

extract_internal_links(anchors, base_url, prefix) ==
    ExtractLinksFrom(anchors, 1, urlparse(base_url).netloc, prefix, <<>>, {})

(***************************************************************************)
(* scrape_page: (title, content, links, success)                           *)
(***************************************************************************)
scrape_page(url, prefix) ==
    IF url \in DOMAIN web /\ web[url].ok
    THEN [title   |-> web[url].title,
          content |-> web[url].content,
          links   |-> extract_internal_links(web[url].anchors, url, prefix),
          success |-> TRUE]
    ELSE [title |-> "", content |-> "", links |-> <<>>, success |-> FALSE]

(***************************************************************************)
(* crawl                                                                   *)
(***************************************************************************)
Entry(url, depth, referer) == [url |-> url, depth |-> depth, referer |-> referer]

\* [u for u, d, r in to_visit]
QueuedUrls(queue) == {queue[k].url : k \in 1..Len(queue)}

\* the loop "for link in links" of a scraped page, from link i on; q and al
\* are to_visit and all_links as the loop has left them so far
RECURSIVE EnqueueLinks(_, _, _, _, _, _, _)
\* the loop body for link i: fresh is "normalized not in visited and
\* normalized not in [u for u, d, r in to_visit]"
\* faulty variant: puts a new entry at the head of the queue
EnqueueLink_at_head(links, i, url, depth, seen, q, al, normalized, fresh) ==
    EnqueueLinks(links, i + 1, url, depth, seen,
                 IF fresh THEN <<Entry(normalized, depth + 1, url)>> \o q ELSE q,
                 IF fresh THEN Append(al, links[i]) ELSE al)

EnqueueLink(links, i, url, depth, seen, q, al, normalized, fresh) ==
    EnqueueLinks(links, i + 1, url, depth, seen,
                 IF fresh THEN Append(q, Entry(normalized, depth + 1, url)) ELSE q,
                 IF fresh THEN Append(al, links[i]) ELSE al)

\* faulty variant: does not look into visited before it appends
EnqueueLinks_ignores_visited(links, i, url, depth, seen, q, al) ==
    IF i > Len(links) THEN [to_visit |-> q, all_links |-> al]
    ELSE EnqueueLink(links, i, url, depth, seen, q, al,
                     normalize_url(links[i].url),
                     normalize_url(links[i].url) \notin QueuedUrls(q))

\* faulty variant: does not look into the queue before it appends
EnqueueLinks_ignores_queue(links, i, url, depth, seen, q, al) ==
    IF i > Len(links) THEN [to_visit |-> q, all_links |-> al]
    ELSE EnqueueLink(links, i, url, depth, seen, q, al,
                     normalize_url(links[i].url),
                     normalize_url(links[i].url) \notin seen)

EnqueueLinks(links, i, url, depth, seen, q, al) ==
    IF i > Len(links) THEN [to_visit |-> q, all_links |-> al]
    ELSE EnqueueLink(links, i, url, depth, seen, q, al,
                     normalize_url(links[i].url),
                     /\ normalize_url(links[i].url) \notin seen
                     /\ normalize_url(links[i].url) \notin QueuedUrls(q))

\* faulty variant: follows the links of a page at depth max_depth as well
DepthAllows_inclusive(depth) == max_depth = <<>> \/ depth <= max_depth[1]

\* max_depth is None or depth < max_depth
DepthAllows(depth) == max_depth = <<>> \/ depth < max_depth[1]

\* faulty variant: runs the loop once more when the budget is reached
LoopRuns_inclusive == to_visit # <<>> /\ Len(pages) <= max_pages

\* the condition of the while loop
LoopRuns == to_visit # <<>> /\ Len(pages) < max_pages

\* the three "continue" tests on a popped url
DiscardedAs(url, parsed, base_domain) ==
    \/ url \in visited
    \/ parsed.netloc # base_domain
    \/ path_prefix # <<>> /\ ~StartsWith(parsed.path, path_prefix)

Discarded(url) == DiscardedAs(url, urlparse(url), urlparse(start_url).netloc)

\* success and content.strip()
Stored(result) == result.success /\ Strip(result.content) # ""

Head1 == Head(to_visit)

\* faulty variant: does not record the url
MarkVisited_forgets(url) == visited

\* visited.add(url)
MarkVisited(url) == visited \cup {url}

\* an iteration that pops an entry and drops it at one of the "continue"s
CrawlDiscard ==
    /\ status = "running"
    /\ LoopRuns
    /\ Discarded(Head1.url)
    /\ to_visit' = Tail(to_visit)
    /\ dequeued' = Append(dequeued, Head1)
    /\ UNCHANGED <<start_url, max_pages, max_depth, path_prefix, web, visited,
                   pages, all_links, status, fetched>>
    /\ UNCHANGED <<normVars, runVars, jsVars, linkVars>>

\* the links of a stored page go to the queue when the depth allows it
AfterLinks(entry, result) ==
    IF DepthAllows(entry.depth)
    THEN EnqueueLinks(result.links, 1, entry.url, entry.depth,
                      MarkVisited(entry.url), Tail(to_visit), all_links)
    ELSE [to_visit |-> Tail(to_visit), all_links |-> all_links]

\* the iteration for a popped entry whose scrape gave result
StorePage(entry, result, after) ==
    /\ Stored(result)
    /\ visited' = MarkVisited(entry.url)
    /\ fetched' = Append(fetched, [url |-> entry.url, referer |-> entry.referer])
    /\ pages' = Append(pages, [url |-> entry.url, title |-> result.title,
                               content |-> result.content])
    /\ to_visit' = after.to_visit
    /\ all_links' = after.all_links

\* an iteration that scrapes the popped url and stores the page
CrawlStorePage ==
    /\ status = "running"
    /\ LoopRuns
    /\ ~Discarded(Head1.url)
    /\ \E result \in {scrape_page(Head1.url, path_prefix)} :
          \E after \in {AfterLinks(Head1, result)} :
             StorePage(Head1, result, after)
    /\ dequeued' = Append(dequeued, Head1)
    /\ UNCHANGED <<start_url, max_pages, max_depth, path_prefix, web, status>>
    /\ UNCHANGED <<normVars, runVars, jsVars, linkVars>>

\* faulty variant: puts the entry of a page that gave nothing back at the end
\* of the queue, to try it again
CrawlSkipPage_retries ==
    /\ status = "running"
    /\ LoopRuns
    /\ ~Discarded(Head1.url)
    /\ \E result \in {scrape_page(Head1.url, path_prefix)} : ~Stored(result)
    /\ to_visit' = Append(Tail(to_visit), Head1)
    /\ UNCHANGED <<start_url, max_pages, max_depth, path_prefix, web, pages,
                   all_links, status, visited, fetched, dequeued>>
    /\ UNCHANGED <<normVars, runVars, jsVars, linkVars>>

\* an iteration that scrapes the popped url and gets a failure or no content
CrawlSkipPage ==
    /\ status = "running"
    /\ LoopRuns
    /\ ~Discarded(Head1.url)
    /\ \E result \in {scrape_page(Head1.url, path_prefix)} : ~Stored(result)
    /\ visited' = MarkVisited(Head1.url)
    /\ fetched' = Append(fetched, [url |-> Head1.url, referer |-> Head1.referer])
    /\ to_visit' = Tail(to_visit)
    /\ dequeued' = Append(dequeued, Head1)
    /\ UNCHANGED <<start_url, max_pages, max_depth, path_prefix, web, pages,
                   all_links, status>>
    /\ UNCHANGED <<normVars, runVars, jsVars, linkVars>>

\* the loop condition fails: return pages, all_links
CrawlReturn ==
    /\ status = "running"
    /\ ~LoopRuns
    /\ status' = "returned"
    /\ UNCHANGED <<start_url, max_pages, max_depth, path_prefix, web, visited,
                   to_visit, pages, all_links, dequeued, fetched>>
    /\ UNCHANGED <<normVars, runVars, jsVars, linkVars>>

\* the arguments tried
Budgets  == (0..MaxBudget) \cup {10}
Depths   == {<<>>} \cup {<<d>> : d \in 0..MaxDepthLimit}
Prefixes == {<<>>, <<"/", "docs", "/">>, <<"/", "docs">>}
Webs(links) == {Served(links, o) : o \in [DOMAIN links -> Outcomes]}

Init ==
    /\ \E site \in Sites :
          /\ start_url = site.start
          /\ web \in Webs(site.links)
    /\ max_pages \in Budgets
    /\ max_depth \in Depths
    /\ path_prefix \in Prefixes
    /\ visited = {}
    /\ to_visit = <<Entry(normalize_url(start_url), 0, <<>>)>>
    /\ pages = <<>>
    /\ all_links = <<>>
    /\ status = "running"
    /\ dequeued = <<>>
    /\ fetched = <<>>
    /\ nu_in = <<>>
    /\ nu_alt = <<>>
    /\ nu_out = <<>>
    /\ nu_twice = <<>>
    /\ RunIdle
    /\ JsIdle
    /\ LinksIdle

Next == CrawlDiscard \/ CrawlStorePage \/ CrawlSkipPage \/ CrawlReturn

Spec == Init /\ [][Next]_vars

\* The loop of crawl goes on as long as its condition holds: an iteration
\* blocks on nothing but its fetches, which have timeouts (10 s for httpx,
\* 30 s for page.goto).
\* the runs whose end is awaited: the cycle and the chain without a path
\* prefix, the documentation tree under the prefix /docs/ from both of its
\* seeds; every page serves text or fails, and the budget lies below or
\* above the number of pages
LiveRuns ==
    {[site |-> [links |-> CycleLinks, start |-> HrefRoot], prefix |-> <<>>],
     [site |-> [links |-> ChainLinks, start |-> HrefRoot], prefix |-> <<>>],
     [site |-> [links |-> DocsLinks, start |-> HrefDocsA],
      prefix |-> <<"/", "docs", "/">>],
     [site |-> [links |-> DocsLinks, start |-> HrefDocs],
      prefix |-> <<"/", "docs", "/">>]}

InitLive ==
    /\ \E run \in LiveRuns :
          /\ start_url = run.site.start
          /\ web \in {Served(run.site.links, o) :
                         o \in [DOMAIN run.site.links -> {"text", "FAIL"}]}
          /\ path_prefix = run.prefix
    /\ max_pages \in {2, 10}
    /\ max_depth = <<>>
    /\ visited = {}
    /\ to_visit = <<Entry(normalize_url(start_url), 0, <<>>)>>
    /\ pages = <<>>
    /\ all_links = <<>>
    /\ status = "running"
    /\ dequeued = <<>>
    /\ fetched = <<>>
    /\ nu_in = <<>>
    /\ nu_alt = <<>>
    /\ nu_out = <<>>
    /\ nu_twice = <<>>
    /\ RunIdle
    /\ JsIdle
    /\ LinksIdle

SpecLive == InitLive /\ [][Next]_vars /\ WF_vars(Next)

(***************************************************************************)
(* normalize_url on its own: the arguments are URLs with scheme http or    *)
(* https, as main (which prepends "https://" to anything else) and         *)
(* extract_internal_links (which keeps http and https links only) pass     *)
(* them, followed by any text of up to MaxUrlTail tokens.                  *)
(***************************************************************************)
TailTokens == {"/", "?", "#", ":", "ex.com", "a"}

Tails == UNION {[1..n -> TailTokens] : n \in 0..MaxUrlTail}

NormInputs == {<<s, ":">> \o t : s \in {"http", "https"}, t \in Tails}

InitNorm ==
    /\ nu_in \in NormInputs
    /\ nu_alt = nu_in
    /\ nu_out = <<>>
    /\ nu_twice = <<>>
    /\ start_url = HrefRoot
    /\ web = CycleWeb
    /\ max_pages = 0
    /\ max_depth = <<>>
    /\ path_prefix = <<>>
    /\ visited = {}
    /\ to_visit = <<>>
    /\ pages = <<>>
    /\ all_links = <<>>
    /\ status = "returned"
    /\ dequeued = <<>>
    /\ fetched = <<>>
    /\ RunIdle
    /\ JsIdle
    /\ LinksIdle

\* v is u with one more "/" at the end of its path
AddsTrailingSlash(u, v) ==
    urlparse(v) = [urlparse(u) EXCEPT !.path = @ \o <<"/">>]

\* the second argument is the first with one more "/" at the end of its path
VarySlash ==
    /\ nu_out = <<>>
    /\ nu_alt = nu_in
    /\ \E k \in 0..Len(nu_in) :
          /\ nu_alt' = Take(nu_in, k) \o <<"/">> \o Drop(nu_in, k)
          /\ AddsTrailingSlash(nu_in, nu_alt')
    /\ UNCHANGED <<nu_in, nu_out, nu_twice>>
    /\ UNCHANGED <<crawlVars, runVars, jsVars, linkVars>>

\* the second argument is the first with another fragment, or with none
VaryFragment ==
    /\ nu_out = <<>>
    /\ nu_alt = nu_in
    /\ \E fr \in {<<>>, <<"#", "a">>, <<"#", "/">>} :
          /\ nu_alt' = BeforeFragment(nu_in) \o fr
          /\ nu_alt' # nu_in
    /\ UNCHANGED <<nu_in, nu_out, nu_twice>>
    /\ UNCHANGED <<crawlVars, runVars, jsVars, linkVars>>

\* normalize_url(nu_in), normalize_url(nu_alt)
NormalizeCall ==
    /\ nu_out = <<>>
    /\ nu_out' = <<normalize_url(nu_in), normalize_url(nu_alt)>>
    /\ UNCHANGED <<nu_in, nu_alt, nu_twice>>
    /\ UNCHANGED <<crawlVars, runVars, jsVars, linkVars>>

\* normalize_url of the first result
NormalizeAgain ==
    /\ nu_out # <<>>
    /\ nu_twice = <<>>
    /\ nu_twice' = <<normalize_url(nu_out[1])>>
    /\ UNCHANGED <<nu_in, nu_alt, nu_out>>
    /\ UNCHANGED <<crawlVars, runVars, jsVars, linkVars>>

NextNorm == VarySlash \/ VaryFragment \/ NormalizeCall \/ NormalizeAgain

SpecNorm == InitNorm /\ [][NextNorm]_vars

(***************************************************************************)
(* main with the fetch strategy of scrape_page, fetch_with_browser and the *)
(* browser singleton of get_browser and close_browser.  pc walks through   *)
(* the statements of main and of the functions it calls; the crawl loop is *)
(* seen as main sees it: a number of scrape_page calls, each of which      *)
(* stores a page or does not.  What the network, the browser and the file  *)
(* system do is chosen freely at each call.                                *)
(***************************************************************************)
MaxScrapes == 2

\* the crawl engine and normalize_url are not running
CrawlIdle ==
    /\ start_url = HrefRoot
    /\ web = CycleWeb
    /\ max_pages = 0
    /\ max_depth = <<>>
    /\ path_prefix = <<>>
    /\ visited = {}
    /\ to_visit = <<>>
    /\ pages = <<>>
    /\ all_links = <<>>
    /\ status = "returned"
    /\ dequeued = <<>>
    /\ fetched = <<>>

NormIdle == nu_in = <<>> /\ nu_alt = <<>> /\ nu_out = <<>> /\ nu_twice = <<>>

InitRun ==
    /\ run_mode \in {"combined", "separate", "single"}
    /\ expand_tabs \in BOOLEAN
    /\ force_browser \in BOOLEAN
    /\ pc = "main_try"
    /\ ctx = "none"
    /\ exc = "none"
    /\ exit_code = -1
    /\ http_calls = 0
    /\ render_calls = 0
    /\ render_kinds = {}
    /\ http_result = "none"
    /\ html_from = "none"
    /\ sp_success = "none"
    /\ playwright = FALSE
    /\ browser = FALSE
    /\ launches = 0
    /\ open_pages = 0
    /\ pages_opened = 0
    /\ pages_n = 0
    /\ scrapes = 0
    /\ page_failures = 0
    /\ interrupted = FALSE
    /\ write_failed = FALSE
    /\ CrawlIdle
    /\ NormIdle
    /\ JsIdle
    /\ LinksIdle

notRunVars == <<crawlVars, normVars, jsVars, linkVars>>

\* if args.crawl: ... crawl(...) else: ... scrape_page(...)
MainBegin ==
    /\ pc = "main_try"
    /\ pc' = IF run_mode = "single" THEN "sp_entry" ELSE "crawl_loop"
    /\ UNCHANGED <<run_mode, expand_tabs, force_browser, ctx, exc, exit_code,
                   http_calls, render_calls, render_kinds, http_result,
                   html_from, sp_success, playwright, browser, launches,
                   open_pages, pages_opened, pages_n, scrapes, page_failures,
                   interrupted, write_failed>>
    /\ UNCHANGED notRunVars

\* crawl: an iteration of the while loop reaches its scrape_page call
CrawlScrapes ==
    /\ pc = "crawl_loop"
    /\ scrapes < MaxScrapes
    /\ scrapes' = scrapes + 1
    /\ pc' = "sp_entry"
    /\ UNCHANGED <<run_mode, expand_tabs, force_browser, ctx, exc, exit_code,
                   http_calls, render_calls, render_kinds, http_result,
                   html_from, sp_success, playwright, browser, launches,
                   open_pages, pages_opened, pages_n, page_failures,
                   interrupted, write_failed>>
    /\ UNCHANGED notRunVars

\* crawl: the loop condition fails and crawl returns pages, all_links
CrawlEnds ==
    /\ pc = "crawl_loop"
    /\ pc' = "after_crawl"
    /\ UNCHANGED <<run_mode, expand_tabs, force_browser, ctx, exc, exit_code,
                   http_calls, render_calls, render_kinds, http_result,
                   html_from, sp_success, playwright, browser, launches,
                   open_pages, pages_opened, pages_n, scrapes, page_failures,
                   interrupted, write_failed>>
    /\ UNCHANGED notRunVars

\* faulty variant: tests force_browser before expand_tabs
Strategy_force_first(tabs, force) ==
    IF force THEN "forced" ELSE IF tabs THEN "tabs" ELSE "http"

\* scrape_page: if expand_tabs: ... elif not force_browser: ... else: ...
Strategy(tabs, force) ==
    IF tabs THEN "tabs" ELSE IF ~force THEN "http" ELSE "forced"

\* scrape_page is entered and takes the branch of its strategy
SpBegin ==
    /\ pc = "sp_entry"
    /\ http_calls' = 0
    /\ render_calls' = 0
    /\ render_kinds' = {}
    /\ http_result' = "none"
    /\ html_from' = "none"
    /\ sp_success' = "none"
    /\ ctx' = Strategy(expand_tabs, force_browser)
    /\ pc' = IF Strategy(expand_tabs, force_browser) = "http"
             THEN "sp_http" ELSE "fwb_acquire"
    /\ UNCHANGED <<run_mode, expand_tabs, force_browser, exc, exit_code,
                   playwright, browser, launches, open_pages, pages_opened,
                   pages_n, scrapes, page_failures, interrupted, write_failed>>
    /\ UNCHANGED notRunVars

\* what fetch_with_httpx and the test of its result can do: raise, give a
\* status other than 200, give a 200 document that is_js_rendered takes for
\* client-rendered, give a 200 document that it does not
HttpResults == {"raise", "non200", "js", "plain"}

\* faulty variant: does not test the status, a document of any status is kept
AfterHttp_ignores_status(r) ==
    IF r \in {"plain", "non200"} THEN [pc |-> "sp_parse", ctx |-> "http"]
    ELSE IF r = "js" THEN [pc |-> "fwb_acquire", ctx |-> "rerender"]
    ELSE [pc |-> "fwb_acquire", ctx |-> "fallback"]

\* where scrape_page goes on after the inner try
AfterHttp(r) ==
    IF r = "plain" THEN [pc |-> "sp_parse", ctx |-> "http"]
    ELSE IF r = "js" THEN [pc |-> "fwb_acquire", ctx |-> "rerender"]
    ELSE [pc |-> "fwb_acquire", ctx |-> "fallback"]

\* html, status = fetch_with_httpx(...); if status != 200: raise ...;
\* if is_js_rendered(...): ...  except Exception: ...
HttpFetch ==
    /\ pc = "sp_http"
    /\ \E r \in HttpResults :
          /\ http_result' = r
          /\ pc' = AfterHttp(r).pc
          /\ ctx' = AfterHttp(r).ctx
          /\ html_from' = IF r = "plain" THEN "http" ELSE html_from
    /\ http_calls' = http_calls + 1
    /\ UNCHANGED <<run_mode, expand_tabs, force_browser, exc, exit_code,
                   render_calls, render_kinds, sp_success, playwright, browser,
                   launches, open_pages, pages_opened, pages_n, scrapes,
                   page_failures, interrupted, write_failed>>
    /\ UNCHANGED notRunVars

\* faulty variant: the forced render fetch stands in a try block with a
\* fallback of its own
AfterRaise_retries_forced(c) ==
    IF c \in {"rerender", "forced"}
    THEN [pc |-> "fwb_acquire", ctx |-> "fallback", success |-> "none"]
    ELSE [pc |-> "sp_return", ctx |-> "none", success |-> "failed"]

\* where an Exception raised by fetch_with_browser is caught: by the inner
\* "except Exception" when the call stands in the inner try (then the
\* fallback fetch follows), by the outer one otherwise (return "", "", [],
\* False)
AfterRaise(c) ==
    IF c = "rerender" THEN [pc |-> "fwb_acquire", ctx |-> "fallback", success |-> "none"]
    ELSE [pc |-> "sp_return", ctx |-> "none", success |-> "failed"]

\* faulty variant: get_browser launches a browser at every call
LaunchesAfter_every_call == launches + 1

\* get_browser: the browser is launched when there is none
LaunchesAfter == IF browser THEN launches ELSE launches + 1

\* fetch_with_browser(url, expand_tabs=...) is called
RenderCalled ==
    /\ render_calls' = render_calls + 1
    /\ render_kinds' = render_kinds \cup {ctx = "tabs"}

\* get_browser raises: sync_playwright().start() fails, or it succeeds and
\* chromium.launch fails
GetBrowserRaises ==
    /\ pc = "fwb_acquire"
    /\ ~browser
    /\ RenderCalled
    /\ \E started \in BOOLEAN : playwright' = (playwright \/ started)
    /\ pc' = AfterRaise(ctx).pc
    /\ ctx' = AfterRaise(ctx).ctx
    /\ sp_success' = AfterRaise(ctx).success
    /\ UNCHANGED <<run_mode, expand_tabs, force_browser, exc, exit_code,
                   http_calls, http_result, html_from, browser, launches,
                   open_pages, pages_opened, pages_n, scrapes, page_failures,
                   interrupted, write_failed>>
    /\ UNCHANGED notRunVars

\* browser = get_browser(); page = browser.new_page()
NewPage ==
    /\ pc = "fwb_acquire"
    /\ RenderCalled
    /\ playwright' = TRUE
    /\ browser' = TRUE
    /\ launches' = LaunchesAfter
    /\ open_pages' = open_pages + 1
    /\ pages_opened' = pages_opened + 1
    /\ pc' = "fwb_load"
    /\ UNCHANGED <<run_mode, expand_tabs, force_browser, ctx, exc, exit_code,
                   http_calls, http_result, html_from, sp_success, pages_n,
                   scrapes, page_failures, interrupted, write_failed>>
    /\ UNCHANGED notRunVars

\* browser = get_browser() returns and browser.new_page() raises
NewPageRaises ==
    /\ pc = "fwb_acquire"
    /\ RenderCalled
    /\ playwright' = TRUE
    /\ browser' = TRUE
    /\ launches' = LaunchesAfter
    /\ pc' = AfterRaise(ctx).pc
    /\ ctx' = AfterRaise(ctx).ctx
    /\ sp_success' = AfterRaise(ctx).success
    /\ UNCHANGED <<run_mode, expand_tabs, force_browser, exc, exit_code,
                   http_calls, http_result, html_from, open_pages,
                   pages_opened, pages_n, scrapes, page_failures, interrupted,
                   write_failed>>
    /\ UNCHANGED notRunVars

\* the try block: page.goto, page.wait_for_timeout, then expand_all_tabs or
\* page.content; any of them may raise
PageLoad ==
    /\ pc = "fwb_load"
    /\ \E raises \in BOOLEAN : exc' = IF raises THEN "Exception" ELSE "none"
    /\ pc' = "fwb_finally"
    /\ UNCHANGED <<run_mode, expand_tabs, force_browser, ctx, exit_code,
                   http_calls, render_calls, render_kinds, http_result,
                   html_from, sp_success, playwright, browser, launches,
                   open_pages, pages_opened, pages_n, scrapes, page_failures,
                   interrupted, write_failed>>
    /\ UNCHANGED notRunVars

\* where control goes when the finally block of fetch_with_browser is done:
\* "return content", or the exception goes on to its handler
AfterFinally(e, c) ==
    IF e = "none" THEN [pc |-> "sp_parse", ctx |-> c, success |-> "none"]
    ELSE IF e = "KeyboardInterrupt"
         THEN [pc |-> "except_ki", ctx |-> "none", success |-> "none"]
         ELSE AfterRaise(c)

\* faulty variant: closes the page after the try block, without "finally"
PageClosed_on_success_only(e) == IF e = "none" THEN open_pages - 1 ELSE open_pages

\* finally: page.close()
PageClosed(e) == open_pages - 1

\* the finally block of fetch_with_browser, then what follows it
PageFinally ==
    /\ pc = "fwb_finally"
    /\ open_pages' = PageClosed(exc)
    /\ pc' = AfterFinally(exc, ctx).pc
    /\ ctx' = AfterFinally(exc, ctx).ctx
    /\ sp_success' = IF exc = "Exception" THEN AfterRaise(ctx).success ELSE sp_success
    /\ html_from' = IF exc = "none" THEN "render" ELSE html_from
    /\ exc' = IF exc = "Exception" THEN "none" ELSE exc
    /\ UNCHANGED <<run_mode, expand_tabs, force_browser, exit_code,
                   http_calls, render_calls, render_kinds, http_result,
                   playwright, browser, launches, pages_opened, pages_n,
                   scrapes, page_failures, interrupted, write_failed>>
    /\ UNCHANGED notRunVars

\* title, content, links are taken from the document: return ..., True
SpParse ==
    /\ pc = "sp_parse"
    /\ sp_success' = "ok"
    /\ pc' = "sp_return"
    /\ ctx' = "none"
    /\ UNCHANGED <<run_mode, expand_tabs, force_browser, exc, exit_code,
                   http_calls, render_calls, render_kinds, http_result,
                   html_from, playwright, browser, launches, open_pages,
                   pages_opened, pages_n, scrapes, page_failures, interrupted,
                   write_failed>>
    /\ UNCHANGED notRunVars

\* scrape_page returns to crawl: "if success and content.strip()" appends a
\* page, otherwise the iteration ends with nothing stored
SpReturnsToCrawl ==
    /\ pc = "sp_return"
    /\ run_mode # "single"
    /\ \E has_content \in BOOLEAN :
          IF sp_success = "ok" /\ has_content
          THEN pages_n' = pages_n + 1 /\ page_failures' = page_failures
          ELSE pages_n' = pages_n /\ page_failures' = page_failures + 1
    /\ pc' = "crawl_loop"
    /\ UNCHANGED <<run_mode, expand_tabs, force_browser, ctx, exc, exit_code,
                   http_calls, render_calls, render_kinds, http_result,
                   html_from, sp_success, playwright, browser, launches,
                   open_pages, pages_opened, scrapes, interrupted,
                   write_failed>>
    /\ UNCHANGED notRunVars

\* scrape_page returns to main
SpReturnsToMain ==
    /\ pc = "sp_return"
    /\ run_mode = "single"
    /\ pc' = "after_single"
    /\ UNCHANGED <<run_mode, expand_tabs, force_browser, ctx, exc, exit_code,
                   http_calls, render_calls, render_kinds, http_result,
                   html_from, sp_success, playwright, browser, launches,
                   open_pages, pages_opened, pages_n, scrapes, page_failures,
                   interrupted, write_failed>>
    /\ UNCHANGED notRunVars

\* sys.exit(code): SystemExit passes both except clauses and reaches finally
SysExit(code) ==
    /\ exit_code' = code
    /\ exc' = "SystemExit"
    /\ pc' = "finally"

\* faulty variant: goes on to write the output whatever the crawl returned
NoPages_ignored == FALSE

\* if not pages:
NoPages == pages_n = 0

\* if not pages: ... sys.exit(1)
AfterCrawl ==
    /\ pc = "after_crawl"
    /\ IF NoPages THEN SysExit(1)
       ELSE pc' = "write" /\ UNCHANGED <<exit_code, exc>>
    /\ UNCHANGED <<run_mode, expand_tabs, force_browser, ctx,
                   http_calls, render_calls, render_kinds, http_result,
                   html_from, sp_success, playwright, browser, launches,
                   open_pages, pages_opened, pages_n, scrapes, page_failures,
                   interrupted, write_failed>>
    /\ UNCHANGED notRunVars

\* if not success: ... sys.exit(1)
AfterSingle ==
    /\ pc = "after_single"
    /\ IF sp_success # "ok" THEN SysExit(1)
       ELSE pc' = "write" /\ UNCHANGED <<exit_code, exc>>
    /\ UNCHANGED <<run_mode, expand_tabs, force_browser, ctx,
                   http_calls, render_calls, render_kinds, http_result,
                   html_from, sp_success, playwright, browser, launches,
                   open_pages, pages_opened, pages_n, scrapes, page_failures,
                   interrupted, write_failed>>
    /\ UNCHANGED notRunVars

\* the markdown is built and written: one file per page and "return" in
\* separate mode, one file otherwise; mkdir, write_text and stat may raise
WriteOutput ==
    /\ pc = "write"
    /\ \E raises \in BOOLEAN :
          /\ write_failed' = raises
          /\ exc' = IF raises THEN "Exception" ELSE "none"
          /\ pc' = IF raises THEN "except_exc" ELSE "finally"
    /\ UNCHANGED <<run_mode, expand_tabs, force_browser, ctx, exit_code,
                   http_calls, render_calls, render_kinds, http_result,
                   html_from, sp_success, playwright, browser, launches,
                   open_pages, pages_opened, pages_n, scrapes, page_failures,
                   interrupted>>
    /\ UNCHANGED notRunVars

\* the statements of the try block of main and of what it calls, except the
\* finally block of fetch_with_browser
TryBlock == {"main_try", "crawl_loop", "sp_entry", "sp_http", "fwb_acquire",
             "fwb_load", "sp_parse", "sp_return", "after_crawl",
             "after_single", "write"}

\* KeyboardInterrupt is raised in the try block of main.  No "except
\* Exception" catches it; with a page open it passes the finally block of
\* fetch_with_browser first.
Interrupt ==
    /\ pc \in TryBlock
    /\ interrupted' = TRUE
    /\ exc' = "KeyboardInterrupt"
    /\ pc' = IF pc = "fwb_load" THEN "fwb_finally" ELSE "except_ki"
    /\ UNCHANGED <<run_mode, expand_tabs, force_browser, ctx, exit_code,
                   http_calls, render_calls, render_kinds, http_result,
                   html_from, sp_success, playwright, browser, launches,
                   open_pages, pages_opened, pages_n, scrapes, page_failures,
                   write_failed>>
    /\ UNCHANGED notRunVars

\* faulty variant: leaves the process at once, as os._exit does
ExceptKeyboardInterrupt_exits_at_once ==
    /\ pc = "except_ki"
    /\ exit_code' = 130
    /\ exc' = "SystemExit"
    /\ pc' = "exited"
    /\ UNCHANGED <<run_mode, expand_tabs, force_browser, ctx,
                   http_calls, render_calls, render_kinds, http_result,
                   html_from, sp_success, playwright, browser, launches,
                   open_pages, pages_opened, pages_n, scrapes, page_failures,
                   interrupted, write_failed>>
    /\ UNCHANGED notRunVars

\* except KeyboardInterrupt: ... sys.exit(130)
ExceptKeyboardInterrupt ==
    /\ pc = "except_ki"
    /\ SysExit(130)
    /\ UNCHANGED <<run_mode, expand_tabs, force_browser, ctx,
                   http_calls, render_calls, render_kinds, http_result,
                   html_from, sp_success, playwright, browser, launches,
                   open_pages, pages_opened, pages_n, scrapes, page_failures,
                   interrupted, write_failed>>
    /\ UNCHANGED notRunVars

\* except Exception as e: ... sys.exit(1)
ExceptException ==
    /\ pc = "except_exc"
    /\ SysExit(1)
    /\ UNCHANGED <<run_mode, expand_tabs, force_browser, ctx,
                   http_calls, render_calls, render_kinds, http_result,
                   html_from, sp_success, playwright, browser, launches,
                   open_pages, pages_opened, pages_n, scrapes, page_failures,
                   interrupted, write_failed>>
    /\ UNCHANGED notRunVars

\* close_browser: if _browser: ... _browser = None;
\* if _playwright: ... _playwright = None
close_browser ==
    /\ browser' = FALSE
    /\ playwright' = FALSE

\* finally: close_browser(); then the process ends, with the status of
\* sys.exit or with 0
MainFinally ==
    /\ pc = "finally"
    /\ close_browser
    /\ exit_code' = IF exit_code = -1 THEN 0 ELSE exit_code
    /\ pc' = "exited"
    /\ UNCHANGED <<run_mode, expand_tabs, force_browser, ctx, exc,
                   http_calls, render_calls, render_kinds, http_result,
                   html_from, sp_success, launches, open_pages, pages_opened,
                   pages_n, scrapes, page_failures, interrupted, write_failed>>
    /\ UNCHANGED notRunVars

NextRun ==
    \/ MainBegin \/ CrawlScrapes \/ CrawlEnds \/ SpBegin \/ HttpFetch
    \/ GetBrowserRaises \/ NewPage \/ NewPageRaises \/ PageLoad \/ PageFinally
    \/ SpParse \/ SpReturnsToCrawl \/ SpReturnsToMain \/ AfterCrawl
    \/ AfterSingle \/ WriteOutput \/ Interrupt \/ ExceptKeyboardInterrupt
    \/ ExceptException \/ MainFinally

SpecRun == InitRun /\ [][NextRun]_vars

(***************************************************************************)
(* is_js_rendered on its own.  A document is described by what the         *)
(* function looks at: the "<script" occurrences before the body, the ids   *)
(* of its elements, and its body, <<>> when the parser found none,         *)
(* otherwise <<b>> with b.text the characters of text outside script and   *)
(* style elements, b.script_text those inside them, and b.scripts the      *)
(* "<script" occurrences in the body.                                      *)
(***************************************************************************)
TextLengths == {0, 199, 200, 499, 500, 1001}

Bodies == {<<>>} \cup
          {<<[text |-> t, script_text |-> st, scripts |-> n]>> :
              t \in TextLengths, st \in {0, 600}, n \in {0, 1}}

Documents == {[head_scripts |-> h, ids |-> i, body |-> b] :
                 h \in {0, 5, 6},
                 i \in {{}, {"app"}, {"root"}, {"__next"}, {"__nuxt"}, {"main"}},
                 b \in Bodies}

\* len(body.get_text(strip=True)) after the script and style elements of the
\* body are decomposed
text_length(body) == body.text

\* html.lower().count("<script")
script_count(html) ==
    html.head_scripts + (IF html.body = <<>> THEN 0 ELSE html.body[1].scripts)

\* any(soup.find(id=...) for "app", "root", "__next", "__nuxt")
has_spa_container(html) == html.ids \cap {"app", "root", "__next", "__nuxt"} # {}

\* faulty variant: five "<script" are enough
is_js_rendered_five_scripts(html) ==
    IF html.body = <<>> THEN FALSE
    ELSE \/ text_length(html.body[1]) < 500 /\ script_count(html) >= 5
         \/ text_length(html.body[1]) < 200 /\ has_spa_container(html)

is_js_rendered(html) ==
    IF html.body = <<>> THEN FALSE
    ELSE \/ text_length(html.body[1]) < 500 /\ script_count(html) > 5
         \/ text_length(html.body[1]) < 200 /\ has_spa_container(html)

\* BeautifulSoup(html, "lxml"): a new object, which shares nothing with the
\* soups made before
Parsed(soups, html) == Append(soups, html)

\* faulty variant: the heuristic is given the soup scrape_page goes on with
HeuristicSoup_shared(soups) == 1

\* is_js_rendered(html, BeautifulSoup(html, "lxml")): the second argument is
\* the soup made in the call expression
HeuristicSoup(soups) == Len(soups)

\* body = soup.find("body"); for script in body.find_all(["script",
\* "style"]): script.decompose() -- the elements are taken out of the soup
\* that was passed
Decomposed(soup) ==
    IF soup.body = <<>> THEN soup
    ELSE [soup EXCEPT !.body = <<[text |-> soup.body[1].text,
                                  script_text |-> 0,
                                  scripts |-> 0]>>]

\* soup = BeautifulSoup(html, "lxml") has been made from the 200 document
InitJs ==
    /\ js_html \in {<<d>> : d \in Documents}
    /\ js_out = <<>>
    /\ js_soups = Parsed(<<>>, js_html[1])
    /\ js_arg = 0
    /\ CrawlIdle
    /\ NormIdle
    /\ RunIdle
    /\ LinksIdle

\* is_js_rendered(html, BeautifulSoup(html, "lxml")): the argument is made,
\* the function takes the script and style elements out of its body and
\* returns its verdict
JsCall ==
    /\ js_out = <<>>
    /\ js_out' = <<is_js_rendered(js_html[1])>>
    /\ \E soups \in {Parsed(js_soups, js_html[1])} :
          /\ js_arg' = HeuristicSoup(soups)
          /\ js_soups' = [soups EXCEPT ![HeuristicSoup(soups)] = Decomposed(@)]
    /\ UNCHANGED js_html
    /\ UNCHANGED <<crawlVars, normVars, runVars, linkVars>>

NextJs == JsCall

SpecJs == InitJs /\ [][NextJs]_vars

(***************************************************************************)
(* extract_internal_links on its own: up to MaxAnchors anchors, taken from *)
(* hrefs of every kind the loop body tells apart and three inner texts.    *)
(***************************************************************************)
MaxAnchors == 2

HrefDocsAQuery == Url("ex.com", <<"/", "docs", "/", "a", "?", "q", "#", "top">>)

AnchorHrefs == {HrefA, HrefDocs, HrefDocsA, HrefDocsAFrag, HrefDocsAQuery,
                HrefPdf, HrefOther, HrefMail}

AnchorTexts == {<<>>, <<"t1">>, <<"t2">>}

AnchorPool == {Anchor(h, t) : h \in AnchorHrefs, t \in AnchorTexts}

AnchorLists == UNION {[1..n -> AnchorPool] : n \in 0..MaxAnchors}

InitLinks ==
    /\ el_anchors \in AnchorLists
    /\ el_base \in {PageDocsA, HrefOther}
    /\ el_prefix \in Prefixes
    /\ el_out = <<>>
    /\ CrawlIdle
    /\ NormIdle
    /\ RunIdle
    /\ JsIdle

\* extract_internal_links(soup, base_url, path_prefix)
ExtractCall ==
    /\ el_out = <<>>
    /\ el_out' = <<extract_internal_links(el_anchors, el_base, el_prefix)>>
    /\ UNCHANGED <<el_anchors, el_base, el_prefix>>
    /\ UNCHANGED <<crawlVars, normVars, runVars, jsVars>>

NextLinks == ExtractCall

SpecLinks == InitLinks /\ [][NextLinks]_vars

(***************************************************************************)
(* Properties                                                              *)
(***************************************************************************)
Distinct(seq) == \A i, j \in 1..Len(seq) : i # j => seq[i] # seq[j]

UrlsOf(seq) == [k \in 1..Len(seq) |-> seq[k].url]

\* the site serves a document with text for u
GoodPage(u) == u \in DOMAIN web /\ web[u].ok /\ web[u].content \notin {"", " "}

\* the depth at which the entry of a stored page was popped
DepthOf(url) ==
    (CHOOSE e \in {dequeued[k] : k \in 1..Len(dequeued)} : e.url = url).depth

\* this step is an iteration that called scrape_page
Scrapes == fetched' # fetched

\* C1: during one crawl run the frontier never pops the same canonical URL
\* twice from to_visit.
C1_NeverDequeuedTwice == Distinct(UrlsOf(dequeued))

\* C2: scrape_page is called at most once per canonical URL, failed and empty
\* pages included: every fetched URL is in visited, no URL is fetched twice,
\* and visited only grows.
C2_FetchedAtMostOnce ==
    /\ [](/\ Distinct(UrlsOf(fetched))
          /\ \A k \in 1..Len(fetched) : fetched[k].url \in visited)
    /\ [][visited \subseteq visited']_vars

\* a page failed, another page was stored, and a later page linked to the
\* failed one again
C2_Witness ==
    /\ \E k \in 1..Len(fetched) : ~GoodPage(fetched[k].url)
          /\ \E j \in 1..Len(pages) :
                /\ \E m \in (k + 1)..Len(fetched) : fetched[m].url = pages[j].url
                /\ fetched[k].url \in
                     {normalize_url(web[pages[j].url].anchors[a].href) :
                        a \in 1..Len(web[pages[j].url].anchors)}
    /\ status = "returned"

\* C3: len(pages) <= max_pages in every state of the loop and at return, and
\* once len(pages) = max_pages no further entry is popped.
C3_BudgetIsCeiling ==
    /\ [](Len(pages) <= max_pages)
    /\ [][Len(pages) = max_pages =>
            to_visit' = to_visit /\ dequeued' = dequeued /\ pages' = pages]_vars

\* the budget stopped the loop while entries were still pending
C3_Witness ==
    /\ status = "returned"
    /\ max_pages > 0
    /\ Len(pages) = max_pages
    /\ to_visit # <<>>

\* the canonical URLs of the links a good page offers to the frontier
FollowedFrom(u) ==
    LET links == extract_internal_links(web[u].anchors, u, path_prefix)
    IN  {normalize_url(links[k].url) : k \in 1..Len(links)}

\* the good pages that lie within n links of the seed, over links that pass
\* the link filters and run through good pages; the seed counts when
\* start_url itself lies under the prefix
RECURSIVE ReachWithin(_)
ReachWithin(n) ==
    IF n = 0
    THEN IF /\ GoodPage(normalize_url(start_url))
            /\ path_prefix # <<>> => StartsWith(urlparse(start_url).path, path_prefix)
         THEN {normalize_url(start_url)}
         ELSE {}
    ELSE LET prev == ReachWithin(n - 1)
         IN  prev \cup {v \in UNION {FollowedFrom(u) : u \in prev} : GoodPage(v)}

Reachable ==
    ReachWithin(IF max_depth = <<>> THEN Cardinality(DOMAIN web)
                ELSE max_depth[1])

\* C4: when at least max_pages good pages are reachable from the seed over
\* links that respect the domain, prefix and depth filters, crawl returns
\* exactly max_pages pages.
C4_ReturnsBudgetWhenReachable ==
    (status = "returned" /\ Cardinality(Reachable) >= max_pages)
        => Len(pages) = max_pages

\* the canonical URLs all anchors of a served page point at
LinkedFrom(u) ==
    IF u \in DOMAIN web
    THEN {normalize_url(web[u].anchors[k].href) : k \in 1..Len(web[u].anchors)}
    ELSE {}

\* the URLs within n hops of the seed, over any anchor of any served page
RECURSIVE WithinHops(_)
WithinHops(n) ==
    IF n = 0 THEN {normalize_url(start_url)}
    ELSE LET prev == WithinHops(n - 1)
         IN  prev \cup UNION {LinkedFrom(u) : u \in prev}

\* C5: with max_depth = D every stored page was popped at depth <= D and lies
\* within D hops of the seed, no pending entry is deeper than D, and an
\* iteration that pops an entry of depth D appends nothing to the frontier.
C5_DepthFilter ==
    /\ [](max_depth # <<>> =>
            /\ \A k \in 1..Len(pages) :
                  /\ DepthOf(pages[k].url) <= max_depth[1]
                  /\ pages[k].url \in WithinHops(max_depth[1])
            /\ \A k \in 1..Len(to_visit) : to_visit[k].depth <= max_depth[1])
    /\ [][(max_depth # <<>> /\ dequeued' # dequeued
            /\ Head(to_visit).depth >= max_depth[1])
          => to_visit' = Tail(to_visit)]_vars

\* with max_depth = 1 a page one hop from the seed was stored, it links to a
\* good page two hops away, and the crawl ended with budget to spare
C5_Witness ==
    /\ max_depth = <<1>>
    /\ status = "returned"
    /\ Len(pages) < max_pages
    /\ \E k \in 1..Len(pages) :
          /\ DepthOf(pages[k].url) = 1
          /\ \E v \in LinkedFrom(pages[k].url) :
                GoodPage(v) /\ v \notin WithinHops(1) /\ v \notin visited

\* the entries an iteration has appended to the frontier
Appended == SubSeq(to_visit', Len(to_visit), Len(to_visit'))

\* C6: with a path prefix every stored page has a URL path that starts with
\* it, and every entry appended to the frontier, like every link recorded,
\* comes from an anchor whose path starts with it: a link with another path
\* is never appended.
C6_PrefixFilter ==
    /\ [](path_prefix # <<>> =>
            \A k \in 1..Len(pages) :
                StartsWith(urlparse(pages[k].url).path, path_prefix))
    /\ [][(path_prefix # <<>> /\ dequeued' # dequeued) =>
            /\ Len(to_visit') >= Len(to_visit) - 1
            /\ \A k \in 1..Len(Appended) :
                  \E a \in 1..Len(web[Head(to_visit).url].anchors) :
                     LET href == web[Head(to_visit).url].anchors[a].href
                     IN  /\ StartsWith(urlparse(href).path, path_prefix)
                         /\ normalize_url(href) = Appended[k].url
            /\ \A k \in (Len(all_links) + 1)..Len(all_links') :
                  StartsWith(urlparse(all_links'[k].url).path, path_prefix)]_vars

\* under the prefix /docs/ a page that links to /blog/x was stored and the
\* crawl went on to other pages
C6_Witness ==
    /\ path_prefix = <<"/", "docs", "/">>
    /\ status = "returned"
    /\ Len(pages) >= 2
    /\ \E k \in 1..Len(pages) : PageBlogX \in LinkedFrom(pages[k].url)
    /\ PageBlogX \notin visited

\* C7: the cycle scenario (seed https://ex.com/ linking to /a, /b, /c, each
\* linking back to /, every page with text, max_pages = 10) ends with exactly
\* four pages, and in every crawl the stored pages have pairwise distinct
\* URLs.
C7_CycleScenario ==
    /\ (/\ web = CycleWeb
        /\ start_url = HrefRoot
        /\ max_pages = 10
        /\ path_prefix = <<>>
        /\ max_depth # <<0>>
        /\ status = "returned")
       => /\ Len(pages) = 4
          /\ {pages[k].url : k \in 1..Len(pages)} = {PageRoot, PageA, PageB, PageC}
    /\ Distinct(UrlsOf(pages))

C7_Witness ==
    /\ web = CycleWeb
    /\ start_url = HrefRoot
    /\ max_pages = 10
    /\ path_prefix = <<>>
    /\ max_depth = <<>>
    /\ status = "returned"
    /\ Len(pages) = 4

\* C8: an iteration that scrapes a page whose fetch fails or whose content is
\* empty after trimming stores no page, records no link, leaves the queue as
\* it is apart from the popped head, and stays in the loop.
C8_BadPageIsSkipped ==
    [][(Scrapes /\ ~GoodPage(Head(to_visit).url)) =>
         /\ pages' = pages
         /\ all_links' = all_links
         /\ to_visit' = Tail(to_visit)
         /\ status' = "running"]_vars

\* a page with blank content was skipped and a later page was stored
C8_Witness ==
    \E i, j \in 1..Len(fetched) :
        /\ i < j
        /\ fetched[i].url \in DOMAIN web
        /\ web[fetched[i].url].ok
        /\ web[fetched[i].url].content = " "
        /\ \E k \in 1..Len(pages) : pages[k].url = fetched[j].url

\* u and v have the same scheme, host and query, and paths that are equal or
\* differ by one trailing slash (their fragments are free)
SameButSlashAndFragment(u, v) ==
    LET p == urlparse(u)
        q == urlparse(v)
    IN  /\ p.scheme = q.scheme
        /\ p.netloc = q.netloc
        /\ p.query = q.query
        /\ \/ p.path = q.path
           \/ p.path = q.path \o <<"/">>
           \/ q.path = p.path \o <<"/">>

C10_EveryLinkRecorded ==
    [][(pages' # pages /\ DepthAllows(Head(to_visit).depth)) =>
         all_links' = all_links \o
             extract_internal_links(web[Head(to_visit).url].anchors,
                                    Head(to_visit).url, path_prefix)]_vars

\* C11: in a scrape_page call, with expand_tabs the render fetch is made with
\* tab expansion and HTTP is not called, whatever force_browser is; otherwise
\* with force_browser the render fetch is made and HTTP is not called;
\* otherwise HTTP is called first and exactly once, the render fetch is made
\* only after HTTP raised, gave a status other than 200 or gave a document
\* that the heuristic takes for client-rendered, and a 200 document that the
\* heuristic does not take for client-rendered is kept without any render
\* fetch.
C11_FetchStrategy ==
    /\ expand_tabs => http_calls = 0 /\ render_kinds \subseteq {TRUE}
    /\ ~expand_tabs => render_kinds \subseteq {FALSE}
    /\ (~expand_tabs /\ force_browser) => http_calls = 0
    /\ (~expand_tabs /\ ~force_browser /\ render_calls > 0) =>
          http_calls = 1 /\ http_result \in {"raise", "non200", "js"}
    /\ pc = "sp_return" =>
          IF expand_tabs \/ force_browser
          THEN render_calls = 1
          ELSE /\ http_calls = 1
               /\ http_result \in {"raise", "non200", "js"} => render_calls > 0
               /\ http_result = "plain" =>
                     render_calls = 0 /\ html_from = "http"

\* a call with expand_tabs and force_browser both set has returned a
\* document that was rendered with tab expansion
C11_Witness ==
    /\ pc = "sp_return"
    /\ expand_tabs
    /\ force_browser
    /\ sp_success = "ok"
    /\ html_from = "render"
    /\ render_kinds = {TRUE}

\* C12: when the process has exited, by whichever way (the end of the try
\* block in combined or single-page mode, the "return" of separate mode, a
\* sys.exit(1) after a failure, a KeyboardInterrupt raised anywhere in the try
\* block), neither the browser nor the playwright driver is still up.
C12_BrowserShutDownAtExit ==
    pc = "exited" => ~browser /\ ~playwright

\* a run that had launched the browser was interrupted and has exited with
\* status 130
C12_Witness ==
    /\ pc = "exited"
    /\ launches > 0
    /\ interrupted
    /\ exit_code = 130
    /\ ~browser

\* C13: a page is open only inside fetch_with_browser, between new_page and
\* the end of its finally block: once fetch_with_browser has returned or
\* raised (its try block having succeeded, raised or been interrupted), and
\* between fetches, and at exit, no page is open.
C13_NoPageLeftOpen ==
    pc \notin {"fwb_load", "fwb_finally"} => open_pages = 0

\* the only render fetch of a single-page run opened a page, raised from its
\* try block, and scrape_page has returned failure with no page open
C13_Witness ==
    /\ run_mode = "single"
    /\ pc = "sp_return"
    /\ sp_success = "failed"
    /\ render_calls = 1
    /\ pages_opened = 1
    /\ open_pages = 0

\* the visible text of the body of a document, none when it has no body
VisibleText(html) == IF html.body = <<>> THEN 0 ELSE text_length(html.body[1])

\* the decision rule: little text and more than five scripts, or very little
\* text and an SPA root container
RenderRequired(html) ==
    \/ VisibleText(html) < 500 /\ script_count(html) > 5
    \/ VisibleText(html) < 200 /\ has_spa_container(html)

\* C14 as stated: is_js_rendered returns true exactly when the decision rule
\* holds of the document.
C14_ExactlyTheRule ==
    js_out # <<>> => js_out[1] = RenderRequired(js_html[1])

\* C14, amended: for a document in which the parser finds no body element
\* is_js_rendered returns false; for a document with a body it returns true
\* exactly when the decision rule holds, so a body with less than 500
\* characters of text in a document with six or more "<script" is taken for
\* client-rendered, and a body with more than 1000 characters of text in a
\* document without "<script" is not.
C14_RuleWhenBody ==
    js_out # <<>> =>
        /\ js_html[1].body = <<>> => js_out[1] = FALSE
        /\ js_html[1].body # <<>> => js_out[1] = RenderRequired(js_html[1])
        /\ (/\ js_html[1].body # <<>>
            /\ VisibleText(js_html[1]) < 500
            /\ script_count(js_html[1]) >= 6) => js_out[1] = TRUE
        /\ (/\ js_html[1].body # <<>>
            /\ VisibleText(js_html[1]) > 1000
            /\ script_count(js_html[1]) = 0) => js_out[1] = FALSE

\* a body of 499 characters in a document with six "<script" and no SPA
\* container was taken for client-rendered
C14_Witness ==
    /\ js_out = <<TRUE>>
    /\ js_html[1].body # <<>>
    /\ VisibleText(js_html[1]) = 499
    /\ script_count(js_html[1]) = 6
    /\ ~has_spa_container(js_html[1])

\* the path ends in an asset file name
EndsInAsset(path) == path # <<>> /\ path[Len(path)] = "f.pdf"

\* anchor i of el_anchors passes the scheme, host, prefix and extension tests
Eligible(i) ==
    /\ urlparse(el_anchors[i].href).scheme \in {<<"http">>, <<"https">>}
    /\ urlparse(el_anchors[i].href).netloc = urlparse(el_base).netloc
    /\ el_prefix # <<>> =>
          StartsWith(urlparse(el_anchors[i].href).path, el_prefix)
    /\ ~EndsInAsset(urlparse(el_anchors[i].href).path)

\* the href of anchor i without its fragment
AnchorUrl(i) ==
    UrlOf(urlparse(el_anchors[i].href).scheme,
          urlparse(el_anchors[i].href).netloc,
          urlparse(el_anchors[i].href).path,
          urlparse(el_anchors[i].href).query)

\* anchor i is the first eligible anchor that yields the URL url
FirstFor(i, url) ==
    /\ Eligible(i)
    /\ AnchorUrl(i) = url
    /\ \A j \in 1..(i - 1) : ~(Eligible(j) /\ AnchorUrl(j) = url)

\* the record link has the properties of a returned LinkRecord
GoodLinkRecord(link, parsed) ==
    /\ parsed.scheme \in {<<"http">>, <<"https">>}
    /\ parsed.netloc = urlparse(el_base).netloc
    /\ el_prefix # <<>> => StartsWith(parsed.path, el_prefix)
    /\ parsed.fragment = <<>>
    /\ \A n \in 1..Len(link.url) : link.url[n] # "#"
    /\ ~EndsInAsset(parsed.path)
    /\ \E i \in 1..Len(el_anchors) :
          /\ FirstFor(i, link.url)
          /\ link.text = IF el_anchors[i].text # <<>>
                         THEN el_anchors[i].text ELSE parsed.path

\* C15: every record returned by extract_internal_links has a URL with scheme
\* http or https, the host of base_url, a path that starts with path_prefix
\* when one is given, no fragment, and a path that does not end in a skipped
\* extension; no two records have the same URL; each record carries the text
\* of the first anchor that yields its URL (the path when that text is
\* empty); and every anchor that passes the tests has its record, so an
\* anchor to f.pdf yields none and an anchor with a fragment yields its URL
\* without the fragment.
C15_LinkRecords ==
    el_out # <<>> =>
        /\ \A k \in 1..Len(el_out[1]) :
              GoodLinkRecord(el_out[1][k], urlparse(el_out[1][k].url))
        /\ Distinct(UrlsOf(el_out[1]))
        /\ \A i \in 1..Len(el_anchors) :
              Eligible(i) =>
                 \E k \in 1..Len(el_out[1]) : el_out[1][k].url = AnchorUrl(i)

\* two anchors with different texts gave the same URL, the second with a
\* fragment, and one record with the first text was returned
C15_Witness ==
    /\ el_out # <<>>
    /\ Len(el_anchors) = 2
    /\ el_anchors[1] = Anchor(HrefDocsA, <<"t1">>)
    /\ el_anchors[2] = Anchor(HrefDocsAFrag, <<"t2">>)
    /\ el_prefix = <<"/", "docs", "/">>
    /\ el_out[1] = <<[url |-> HrefDocsA, text |-> <<"t1">>]>>

\* C16: the process ends with a status other than 0 when the crawl has
\* stored no page and when the scrape_page call of single-page mode failed;
\* a crawl that stored at least one page ends with status 0, however many of
\* its scrape_page calls stored nothing, unless the run was interrupted or
\* writing the output raised.
C16_ExitStatus ==
    pc = "exited" =>
        /\ (run_mode # "single" /\ pages_n = 0) => exit_code # 0
        /\ (run_mode = "single" /\ sp_success = "failed") => exit_code # 0
        /\ (/\ run_mode # "single"
            /\ pages_n >= 1
            /\ ~interrupted
            /\ ~write_failed) => exit_code = 0

\* a crawl with one stored page and one scrape that stored nothing has ended
\* with status 0
C16_Witness ==
    /\ pc = "exited"
    /\ run_mode = "combined"
    /\ pages_n = 1
    /\ page_failures = 1
    /\ sp_success = "failed"
    /\ exit_code = 0

\* C17: crawl returns, whatever the link graph (cycles included), whichever
\* pages fail and whatever the arguments; when it has returned, the queue is
\* empty or len(pages) equals max_pages, and the entries still in the queue
\* are left there.
C17_CrawlTerminates ==
    /\ <>(status = "returned")
    /\ [](status = "returned" => (to_visit = <<>> \/ Len(pages) = max_pages))

\* crawl has returned from a site with a cycle and a failing page, with the
\* budget used up and entries left in the queue
C17_Witness ==
    /\ status = "returned"
    /\ to_visit # <<>>
    /\ Len(pages) = max_pages
    /\ max_pages > 0
    /\ \E u \in DOMAIN web : ~web[u].ok /\ u \in visited

\* the depths of the entries of seq never decrease
DepthsAscend(seq) ==
    \A i, j \in 1..Len(seq) : i < j => seq[i].depth <= seq[j].depth

\* C18: the entries leave the queue in the order in which they entered it:
\* every step pops at most one entry, the head, and puts new entries behind
\* all pending ones (the entries popped so far followed by the pending ones
\* only grow at the end); the links of a page are in the queue before the
\* next entry is popped; so the depths of the entries never decrease along
\* the popped and pending entries, and the pages are stored in the order of
\* their depths.
C18_FifoOrder ==
    /\ [][/\ StartsWith(dequeued' \o to_visit', dequeued \o to_visit)
          /\ \/ dequeued' = dequeued /\ to_visit' = to_visit
             \/ dequeued' = Append(dequeued, Head(to_visit))]_vars
    /\ [](DepthsAscend(dequeued \o to_visit))
    /\ [](\A i, j \in 1..Len(pages) :
             i < j => DepthOf(pages[i].url) <= DepthOf(pages[j].url))

\* on the tree, entries of depths 0, 1, 1 and 2 were popped while the links
\* of the first page of depth 1 waited behind the second, and the page of
\* depth 2 was stored last
C18_Witness ==
    /\ Len(pages) >= 3
    /\ PageD \in DOMAIN web
    /\ Len(dequeued) = 4
    /\ \E i, j \in 1..Len(dequeued) :
          /\ i < j
          /\ dequeued[1].depth = 0
          /\ dequeued[i].depth = 1
          /\ dequeued[j].depth = 2
    /\ DepthOf(pages[Len(pages)].url) = 2

\* C19: the first entry ever queued is the seed: the canonical start URL with
\* depth 0 and no referer.  Every entry appended by an iteration has a URL that
\* is not in visited, not in the pending queue and not among the entries
\* appended before it in this iteration; it is the canonical URL of a link
\* extracted from the page just scraped; its depth is the depth of that
\* page's entry plus one and its referer is that page's URL.
C19_AppendedEntries ==
    /\ []((dequeued \o to_visit)[1] = Entry(normalize_url(start_url), 0, <<>>))
    /\ [][dequeued' # dequeued =>
            \A k \in 1..Len(Appended) :
               /\ Appended[k].url \notin visited'
               /\ Appended[k].url \notin QueuedUrls(Tail(to_visit))
               /\ \A j \in 1..(k - 1) : Appended[j].url # Appended[k].url
               /\ Appended[k].depth = Head(to_visit).depth + 1
               /\ Appended[k].referer = Head(to_visit).url
               /\ Head(to_visit).url \in DOMAIN web
               /\ \E a \in 1..Len(web[Head(to_visit).url].anchors) :
                     normalize_url(web[Head(to_visit).url].anchors[a].href)
                        = Appended[k].url]_vars

\* a page at depth 1 whose links are partly visited or queued already has
\* put an entry of depth 2 into the queue
C19_Witness ==
    /\ Len(dequeued) >= 2
    /\ \E k \in 1..Len(to_visit) :
          /\ to_visit[k].depth = 2
          /\ to_visit[k].referer = dequeued[Len(dequeued)].url
          /\ \E a \in 1..Len(web[to_visit[k].referer].anchors) :
                normalize_url(web[to_visit[k].referer].anchors[a].href)
                   \in visited

\* C20: every record in pages has a content that is not empty after
\* trimming and a URL that is in visited, and pages only grows at its end:
\* no record is changed or removed.
C20_PageRecords ==
    /\ [](\A k \in 1..Len(pages) :
             /\ pages[k].content \notin {"", " "}
             /\ pages[k].url \in visited)
    /\ [][StartsWith(pages', pages)]_vars

\* two pages are stored and a page with blank content was scraped and left
\* out
C20_Witness ==
    /\ Len(pages) >= 2
    /\ \E u \in visited :
          /\ u \in DOMAIN web
          /\ web[u].ok
          /\ web[u].content = " "
          /\ \A k \in 1..Len(pages) : pages[k].url # u

C22_ArgumentUnchanged ==
    js_out # <<>> => js_soups[js_arg] = js_html[1]

\* C22: is_js_rendered takes the script and style elements out of the body of
\* the document passed to it, and changes nothing else of it; the html string
\* is not changed; scrape_page passes a second parse of the html, so the soup
\* it hands to get_page_title, extract_text and extract_internal_links is
\* what the parse of the html gave.
C22_OnlyTheArgumentChanges ==
    js_out # <<>> =>
       /\ js_arg \in DOMAIN js_soups
       /\ js_arg # 1
       /\ js_soups[js_arg] = Decomposed(js_html[1])
       /\ js_soups[1] = js_html[1]

\* the heuristic was called on a document with a script element in its body:
\* the soup passed has lost it, the soup of scrape_page has it
C22_Witness ==
    /\ js_out # <<>>
    /\ js_html[1].body # <<>>
    /\ js_html[1].body[1].scripts = 1
    /\ js_soups[js_arg].body[1].scripts = 0
    /\ js_soups[1].body[1].scripts = 1

\* C23: the browser is launched only inside a render fetch, by the
\* get_browser call of fetch_with_browser; it is launched at most once in a
\* run, however many render fetches are made; and once launched the handle
\* stays until close_browser, which is called only in the finally block of
\* main.
C23_LazySingleton ==
    /\ [](launches <= 1)
    /\ [](browser => launches = 1)
    /\ [][launches' # launches =>
             /\ pc = "fwb_acquire"
             /\ render_calls' = render_calls + 1
             /\ ~browser /\ browser']_vars
    /\ [][(browser /\ ~browser') => pc = "finally"]_vars

\* the second scrape_page call of a crawl has opened its page in the browser
\* that the first call launched
C23_Witness ==
    /\ scrapes = 2
    /\ pages_opened >= 2
    /\ pc = "fwb_load"
    /\ browser
    /\ launches = 1

\* C24: at every point of a crawl the URLs of the entries in to_visit are
\* pairwise distinct and none of them is in visited; so no entry that is
\* popped is dropped by the test "url in visited".
C24_QueueDistinctUnvisited ==
    /\ [](\A i, j \in 1..Len(to_visit) :
             i # j => to_visit[i].url # to_visit[j].url)
    /\ [](\A i \in 1..Len(to_visit) : to_visit[i].url \notin visited)
    /\ [][dequeued' # dequeued => Head(to_visit).url \notin visited]_vars

\* two entries are pending after a page was stored whose links lead, among
\* others, to a visited page
C24_Witness ==
    /\ Len(to_visit) >= 2
    /\ Len(pages) >= 2
    /\ \E a \in 1..Len(web[pages[Len(pages)].url].anchors) :
          normalize_url(web[pages[Len(pages)].url].anchors[a].href) \in visited

\* C25: an entry that was made from a discovered link (it has a referer) is
\* never dropped when it is popped: it was not visited, its host is the
\* host of the seed and its path starts with the prefix.
C25_LinkEntriesPassChecks ==
    [][(dequeued' # dequeued /\ Head(to_visit).referer # <<>>) =>
          ~Discarded(Head(to_visit).url)]_vars

\* the URLs of the stored pages
StoredUrls == {pages[k].url : k \in 1..Len(pages)}

\* the stored pages whose entries lie within n links of the seed over links
\* of stored pages only
RECURSIVE StoredWithin(_)
StoredWithin(n) ==
    IF n = 0 THEN {normalize_url(start_url)} \cap StoredUrls
    ELSE LET prev == StoredWithin(n - 1)
         IN  prev \cup (UNION {LinkedFrom(u) : u \in prev} \cap StoredUrls)

\* the length of the shortest link path from the seed to a stored page that
\* runs through stored pages only; Len(pages) when there is none
ShortestPath(url) ==
    IF \E n \in 0..Len(pages) : url \in StoredWithin(n)
    THEN CHOOSE n \in 0..Len(pages) :
            /\ url \in StoredWithin(n)
            /\ \A m \in 0..(n - 1) : url \notin StoredWithin(m)
    ELSE Len(pages)

\* C26: at every point of a crawl, the depth of the entry from which a stored
\* page was popped is the length of the shortest link path from the seed to
\* it over stored pages: a second, longer way to a page never decides its
\* depth.
C26_DepthIsShortestPath ==
    \A k \in 1..Len(pages) :
       DepthOf(pages[k].url) = ShortestPath(pages[k].url)

\* on the tree, /d was stored with depth 2, found over /a, while /c, which
\* links to it as well and lies at depth 2 itself, is stored too
C26_Witness ==
    /\ PageD \in DOMAIN web
    /\ {PageA, PageC, PageD} \subseteq StoredUrls
    /\ DepthOf(PageC) = 2
    /\ DepthOf(PageD) = 2

\* C27: one scrape_page call calls fetch_with_httpx at most once and
\* fetch_with_browser at most twice.  The second render fetch is made only by
\* the fallback handler after the HTTP fetch gave a 200 document that the
\* heuristic took for client-rendered and the render fetch that followed
\* raised.  With expand_tabs or force_browser the call returns after exactly
\* one render fetch and no HTTP fetch, whether that render fetch raised or
\* not.
C27_CallCounts ==
    /\ [](http_calls <= 1 /\ render_calls <= 2)
    /\ [](render_calls = 2 =>
             ~expand_tabs /\ ~force_browser /\ http_result = "js")
    /\ [][(render_calls' = 2 /\ render_calls = 1) =>
             ctx = "fallback" /\ http_result = "js" /\ html_from = "none"]_vars
    /\ []((pc = "sp_return" /\ (expand_tabs \/ force_browser)) =>
             render_calls = 1 /\ http_calls = 0)

\* the render fetch after the heuristic raised, the fallback render fetch
\* delivered the document, and scrape_page has returned success
C27_Witness ==
    /\ pc = "sp_return"
    /\ http_calls = 1
    /\ http_result = "js"
    /\ render_calls = 2
    /\ html_from = "render"
    /\ sp_success = "ok"

====
